---- MODULE Spec2Model ----
(***************************************************************************)
(* HideCustomGIFs (src/plugins/hideCustomGIFs/index.tsx): the exact-match  *)
(* GIF blocking engine.                                                    *)
(*                                                                         *)
(* Strings are sequences of tokens.  Every token stands for a fixed piece  *)
(* of text, so that the string functions of the plugin (URL parsing,       *)
(* trim, decodeURI, the regular expressions) can be computed on them:      *)
(*                                                                         *)
(*   "S"  https://        "s"  https:/       "t"  https:                   *)
(*   "a"  a               "A"  A                                           *)
(*   "/"  /               "?"  ?             "#"  #       "&"  &   "=" =   *)
(*   "G"  .gif            "g"  .GIF                                        *)
(*   "U"  utm_source=1    "M"  utm_medium=1  (tracking parameters)         *)
(*   "K"  k=1             "T"  animated=true                               *)
(*   "E"  %61  (escape of "a")      "%"  a lone percent sign               *)
(*   " "  U+0020 space    "N"  U+00A0 no-break space   "n"  %C2%A0         *)
(*                                                                         *)
(* The absent value (undefined, null) and the empty string are both        *)
(* falsy and the code only ever tests them for truth, so both are <<>>.    *)
(*                                                                         *)
(* Domain of the string model: a scheme token is the first token after     *)
(* leading white space or does not occur; white space occurs only at the   *)
(* two ends; the host of a URL is made of "a" and "A"; a query is made of  *)
(* parameter tokens separated by "&".                                      *)
(***************************************************************************)
EXTENDS Integers, Sequences, FiniteSets, TLC

\* blockedMessageIds, temporarilyUnblockedMessageIds: the two sets of the
\* plugin; patterns: settings.store.patterns; last: the call made last, its
\* arguments and what it returned; toggled: for every message the label of
\* the toggle button clicked last on it, "none" before the first click
VARIABLES blockedMessageIds, temporarilyUnblockedMessageIds, patterns, last,
          toggled

vars == <<blockedMessageIds, temporarilyUnblockedMessageIds, patterns, last,
          toggled>>

----------------------------------------------------------------------------
(* Strings *)

Last(s) == s[Len(s)]

Front(s) == SubSeq(s, 1, Len(s) - 1)

SchemeTokens == {"S", "s", "t"}

\* WhiteSpace and LineTerminator code points String.prototype.trim removes
JsWhiteSpace == {" ", "N"}

\* "C0 control or space", which the URL parser removes from both ends
UrlWhiteSpace == {" "}

RECURSIVE StripLeading(_, _)
StripLeading(s, ws) ==
    IF s # <<>> /\ Head(s) \in ws THEN StripLeading(Tail(s), ws) ELSE s

RECURSIVE StripTrailing(_, _)
StripTrailing(s, ws) ==
    IF s # <<>> /\ Last(s) \in ws THEN StripTrailing(Front(s), ws) ELSE s

\* String.prototype.trim
trim(s) == StripTrailing(StripLeading(s, JsWhiteSpace), JsWhiteSpace)

\* index of the first token of s that is in stop, Len(s) + 1 if none
RECURSIVE IndexOfAny(_, _, _)
IndexOfAny(s, stop, i) ==
    IF i > Len(s) THEN Len(s) + 1
    ELSE IF s[i] \in stop THEN i
    ELSE IndexOfAny(s, stop, i + 1)

\* the pieces of s between separators sep, empty pieces dropped
RECURSIVE SplitNonEmpty(_, _)
SplitNonEmpty(s, sep) ==
    IF s = <<>> THEN <<>>
    ELSE LET i == IndexOfAny(s, {sep}, 1)
             piece == SubSeq(s, 1, i - 1)
             rest == SubSeq(s, i + 1, Len(s))
         IN  IF piece = <<>> THEN SplitNonEmpty(rest, sep)
             ELSE <<piece>> \o SplitNonEmpty(rest, sep)

RECURSIVE JoinWith(_, _)
JoinWith(pieces, sep) ==
    IF pieces = <<>> THEN <<>>
    ELSE IF Len(pieces) = 1 THEN pieces[1]
    ELSE pieces[1] \o <<sep>> \o JoinWith(Tail(pieces), sep)

----------------------------------------------------------------------------
(* new URL(u): the WHATWG URL parser on the token strings of the domain *)

HostTokens == {"a", "A"}

\* the code points the parser percent-encodes in a path or a query
PercentEncode(s) == [i \in 1..Len(s) |-> IF s[i] = "N" THEN "n" ELSE s[i]]

\* host: the parser lower-cases the host of an https URL
ToLowerCase(s) == [i \in 1..Len(s) |->
                      IF s[i] = "A" THEN "a"
                      ELSE IF s[i] = "g" THEN "G"
                      ELSE s[i]]

ParseFailure == [ok |-> FALSE, host |-> <<>>, pathname |-> <<>>, search |-> <<>>]

\* The parsed URL: host, pathname and the query without its "?"; the
\* fragment is not kept, the only use the code makes of it is to clear it.
\* One operator for each state of the parser.

\* query state: afterPath is what follows the path
QueryState(afterPath) ==
    IF afterPath # <<>> /\ Head(afterPath) = "?"
    THEN PercentEncode(SubSeq(afterPath, 2, IndexOfAny(afterPath, {"#"}, 1) - 1))
    ELSE <<>>

\* path state: an https URL without a path has the path "/"
PathState(rawPath) == IF rawPath = <<>> THEN <<"/">> ELSE PercentEncode(rawPath)

\* path start state: the path ends at pathEnd
PathStartState(host, afterHost, pathEnd) ==
    [ok |-> TRUE,
     host |-> ToLowerCase(host),
     pathname |-> PathState(SubSeq(afterHost, 1, pathEnd - 1)),
     search |-> QueryState(SubSeq(afterHost, pathEnd, Len(afterHost)))]

\* host state: an empty host or a forbidden host code point is a failure
HostState(host, afterHost) ==
    IF host = <<>> \/ \E i \in 1..Len(host) : host[i] \notin HostTokens
    THEN ParseFailure
    ELSE PathStartState(host, afterHost, IndexOfAny(afterHost, {"?", "#"}, 1))

\* authority state: the host ends at hostEnd
AuthorityState(r, hostEnd) ==
    HostState(SubSeq(r, 1, hostEnd - 1), SubSeq(r, hostEnd, Len(r)))

\* special authority ignore slashes state
SpecialAuthorityIgnoreSlashesState(r0) ==
    AuthorityState(StripLeading(r0, {"/"}),
                   IndexOfAny(StripLeading(r0, {"/"}), {"/", "?", "#"}, 1))

\* scheme state: without a base URL, a string without a scheme is a failure
SchemeState(s) ==
    IF s = <<>> \/ Head(s) \notin SchemeTokens THEN ParseFailure
    ELSE SpecialAuthorityIgnoreSlashesState(Tail(s))

ParseURL(u) ==
    SchemeState(StripTrailing(StripLeading(u, UrlWhiteSpace), UrlWhiteSpace))

\* URLSearchParams: the name=value pairs of a query
SearchParams(search) == SplitNonEmpty(search, "&")

TrackingTokens == {"U", "M"}

\* a pair whose name is one of utm_source, utm_medium, ... (a tracking token
\* holds the name, the "=" and the start of the value)
IsTrackingParam(pair) == Head(pair) \in TrackingTokens

\* application/x-www-form-urlencoded serializer: a pair without "=" gets one
HasEquals(pair) == \E i \in 1..Len(pair) : pair[i] \in {"U", "M", "K", "T", "="}

SerializeParams(pairs) ==
    JoinWith([i \in 1..Len(pairs) |->
                 IF HasEquals(pairs[i]) THEN pairs[i] ELSE pairs[i] \o <<"=">>],
             "&")

\* URL.prototype.toString
SerializeURL(host, pathname, search) ==
    <<"S">> \o host \o pathname
        \o (IF search = <<>> THEN <<>> ELSE <<"?">> \o search)

----------------------------------------------------------------------------
(* decodeURI and the trailing-slash regular expression of the fallback *)

\* decodeURI throws URIError on a "%" that does not start an escape
DecodeURIThrows(s) == \E i \in 1..Len(s) : s[i] = "%"

decodeURI(s) == [i \in 1..Len(s) |->
                    IF s[i] = "E" THEN "a"
                    ELSE IF s[i] = "n" THEN "N"
                    ELSE s[i]]

\* s.replace(/\/?$/, ""): one "/" at the very end is removed
ReplaceTrailingSlash(s) ==
    IF s = <<>> THEN s
    ELSE IF Last(s) = "/" THEN Front(s)
    ELSE IF Last(s) = "S" THEN Front(s) \o <<"s">>
    ELSE IF Last(s) = "s" THEN Front(s) \o <<"t">>
    ELSE s

----------------------------------------------------------------------------
(* isGifUrl, index.tsx:22 *)

GifTokens == {"G", "g"}

\* /\.gif(?:\?|$)/i.test(url)
GifRegexTest(url) ==
    \E i \in 1..Len(url) :
        /\ url[i] \in GifTokens
        /\ (i = Len(url) \/ url[i + 1] = "?")

\* searchParams.get("animated") === "true": the value of the first pair
\* named animated
AnimatedIsTrue(search) ==
    LET named == SelectSeq(SearchParams(search), LAMBDA p : Head(p) = "T")
    IN  named # <<>> /\ named[1] = <<"T">>

\* the body of isGifUrl after "if (!url) return false", u the parsed url
IsGifParsed(u, url) ==
    IF u.ok /\ Last(u.pathname) \in GifTokens THEN TRUE
    ELSE IF u.ok /\ AnimatedIsTrue(u.search) THEN TRUE
    ELSE GifRegexTest(url)

isGifUrl(url) ==
    IF url = <<>> THEN FALSE ELSE IsGifParsed(ParseURL(url), url)

----------------------------------------------------------------------------
(* equalsAnyUrl and its local function normalize, index.tsx:32 *)

\* parsed.searchParams.delete(k) for the five names
DeleteTracking(pairs) == SelectSeq(pairs, LAMBDA p : ~IsTrackingParam(p))

\* "Normalize trailing slash"
StripOneTrailingSlash(pathname) ==
    IF pathname # <<"/">> /\ Last(pathname) = "/" THEN Front(pathname)
    ELSE pathname

\* pairs without its first tracking parameter
RECURSIVE DeleteFirstTracking(_)
DeleteFirstTracking(pairs) ==
    IF pairs = <<>> THEN <<>>
    ELSE IF IsTrackingParam(Head(pairs)) THEN Tail(pairs)
    ELSE <<Head(pairs)>> \o DeleteFirstTracking(Tail(pairs))

\* NormalizeParsed with a delete that removes the first tracking parameter
\* only
NormalizeParsedDeleteFirst(parsed, u) ==
    IF parsed.ok
    THEN SerializeURL(ToLowerCase(parsed.host),
                      StripOneTrailingSlash(parsed.pathname),
                      SerializeParams(DeleteFirstTracking(SearchParams(parsed.search))))
    ELSE IF DecodeURIThrows(u) THEN u
    ELSE ReplaceTrailingSlash(decodeURI(u))

\* the body of normalize, parsed the result of new URL(u): the try block
\* when u parses, the catch block when it does not
NormalizeParsed(parsed, u) ==
    IF parsed.ok
    THEN SerializeURL(ToLowerCase(parsed.host),
                      StripOneTrailingSlash(parsed.pathname),
                      SerializeParams(DeleteTracking(SearchParams(parsed.search))))
    ELSE IF DecodeURIThrows(u) THEN u
    ELSE ReplaceTrailingSlash(decodeURI(u))

normalize(u) == NormalizeParsed(ParseURL(u), u)

\* equalsAnyUrl that compares the strings as they are
equalsAnyUrlExact(url, urls) ==
    LET trimmed == SelectSeq([i \in 1..Len(urls) |-> trim(urls[i])],
                             LAMBDA x : x # <<>>)
    IN  \E i \in 1..Len(trimmed) : trimmed[i] = url

equalsAnyUrl(url, urls) ==
    LET target == normalize(url)
        trimmed == SelectSeq([i \in 1..Len(urls) |-> trim(urls[i])],
                             LAMBDA x : x # <<>>)
    IN  \E i \in 1..Len(trimmed) : normalize(trimmed[i]) = target

----------------------------------------------------------------------------
(* The records the plugin reads                                            *)
(*   attachment {url?, proxy_url?, content_type?, message_id?}             *)
(*   embed      {type?, url?, image?: {url?}, thumbnail?: {url?}}          *)
(*   message    {id, attachments, embeds}                                  *)
(* A missing string field is <<>> (a missing id or type is "").            *)

MessageIds == {"m1", "m2"}

\* a content_type that is not a string (a number): it has no toLowerCase,
\* so type?.toLowerCase() throws a TypeError
NonString == "<number>"

ContentTypeToLowerCase(type) == IF type = "IMAGE/GIF" THEN "image/gif" ELSE type

\* https://a/a.gif
GifUrl == <<"S", "a", "/", "a", "G">>

\* https://A/a.gif?utm_source=1, which normalizes to GifUrl
GifUrlVariant == <<"S", "A", "/", "a", "G", "?", "U">>

\* https://a/a, no GIF URL
PlainUrl == <<"S", "a", "/", "a">>

\* "a.gif " is no URL and ends in a space
PaddedGifName == <<"a", "G", " ">>

MaxAttachments == 2

MaxEmbeds == 1

MaxPatterns == 2

Attachment(url, proxy_url, content_type, message_id) ==
    [url |-> url, proxy_url |-> proxy_url, content_type |-> content_type,
     message_id |-> message_id]

Attachments(id) ==
    { Attachment(<<>>, GifUrlVariant, "image/png", id),
      Attachment(GifUrl, <<>>, "", ""),
      Attachment(PlainUrl, <<>>, "image/gif", id),
      Attachment(PaddedGifName, <<>>, "IMAGE/GIF", id),
      Attachment(PlainUrl, <<>>, NonString, id),
      Attachment(PlainUrl, <<>>, "image/png", id) }

Embed(type, url, image, thumbnail) ==
    [type |-> type, url |-> url, image |-> image, thumbnail |-> thumbnail]

Embeds ==
    { Embed("gifv", GifUrl, <<>>, <<>>),
      Embed("gifv", PlainUrl, <<>>, GifUrl),
      Embed("gifv", <<>>, GifUrl, <<>>),
      Embed("gifv", <<>>, <<>>, <<>>),
      Embed("image", <<>>, <<>>, GifUrlVariant),
      Embed("", PlainUrl, <<>>, <<>>) }

SeqsUpTo(S, n) == UNION { [1..k -> S] : k \in 0..n }

\* the messages a pass can be given: up to MaxAttachments attachments and
\* MaxEmbeds embeds, MaxAttachments items at most
Messages ==
    UNION { { [id |-> id, attachments |-> ae[1], embeds |-> ae[2]] :
                ae \in { x \in SeqsUpTo(Attachments(id), MaxAttachments)
                                  \X SeqsUpTo(Embeds, MaxEmbeds) :
                             Len(x[1]) + Len(x[2]) <= MaxAttachments } } :
            id \in MessageIds }

\* the two messages of the channel a session is run on
Channel ==
    [id \in MessageIds |->
        IF id = "m1"
        THEN [id |-> id,
              attachments |-> <<Attachment(GifUrl, <<>>, "", ""),
                                Attachment(PlainUrl, <<>>, "image/gif", id)>>,
              embeds |-> <<Embed("gifv", GifUrl, <<>>, <<>>)>>]
        ELSE [id |-> id,
              attachments |-> <<Attachment(<<>>, GifUrlVariant, "image/png", id),
                                Attachment(PaddedGifName, <<>>, "IMAGE/GIF", id)>>,
              embeds |-> <<Embed("gifv", <<>>, GifUrl, <<>>)>>]]

\* the argument of _filterAttachments: an array, or a value that is none
Array(items) == [isArray |-> TRUE, items |-> items]

NotAnArray == [isArray |-> FALSE, items |-> <<>>]

----------------------------------------------------------------------------
(* The plugin's methods.  They read settings.store.patterns and the two    *)
(* sets; a method that changes blockedMessageIds returns the new set.      *)
(* error: "none", "caught" (an exception was raised and the method's catch *)
(* turned it into a return value) or "escaped" (it reached the caller).    *)

\* _markBlocked that forgets the ids marked before
_markBlockedOnly(blocked, messageId) ==
    IF messageId # "" THEN {messageId} ELSE blocked

\* _markBlocked, index.tsx:156
_markBlocked(blocked, messageId) ==
    IF messageId # "" THEN blocked \cup {messageId} ELSE blocked

\* _shouldBlockUrl, index.tsx:160
_shouldBlockUrl(url) ==
    IF url = <<>> THEN FALSE
    ELSE IF ~isGifUrl(url) THEN FALSE
    ELSE equalsAnyUrl(url, patterns)

\* embed?.url || embed?.image?.url || embed?.thumbnail?.url
EmbedUrl(embed) ==
    IF embed.url # <<>> THEN embed.url
    ELSE IF embed.image # <<>> THEN embed.image
    ELSE embed.thumbnail

\* att?.url || att?.proxy_url
AttachmentUrl(att) == IF att.url # <<>> THEN att.url ELSE att.proxy_url

\* const shouldBlock of _shouldBlockEmbed
ShouldBlock(type, url) ==
    IF type = "gifv"
    THEN (IF url # <<>> THEN equalsAnyUrl(url, patterns) ELSE FALSE)
    ELSE _shouldBlockUrl(url)

\* if (shouldBlock) this._markBlocked(message?.id); return shouldBlock
MarkAndReturn(shouldBlock, messageId) ==
    [ret |-> shouldBlock,
     blocked |-> IF shouldBlock THEN _markBlocked(blockedMessageIds, messageId)
                 ELSE blockedMessageIds,
     error |-> "none"]

\* _shouldBlockEmbed without the test of temporarilyUnblockedMessageIds
_shouldBlockEmbedNoOverride(embed, messageId, fault) ==
    IF fault
    THEN [ret |-> FALSE, blocked |-> blockedMessageIds, error |-> "caught"]
    ELSE IF ~(embed.type = "gifv" \/ isGifUrl(EmbedUrl(embed)))
    THEN [ret |-> FALSE, blocked |-> blockedMessageIds, error |-> "none"]
    ELSE MarkAndReturn(ShouldBlock(embed.type, EmbedUrl(embed)), messageId)

\* _shouldBlockEmbed, index.tsx:171.  fault: an exception is raised inside
\* the try block while the embed is classified.
_shouldBlockEmbed(embed, messageId, fault) ==
    IF messageId \in temporarilyUnblockedMessageIds
    THEN [ret |-> FALSE, blocked |-> blockedMessageIds, error |-> "none"]
    ELSE IF fault
    THEN \* catch (e): logged, return false
         [ret |-> FALSE, blocked |-> blockedMessageIds, error |-> "caught"]
    ELSE IF ~(embed.type = "gifv" \/ isGifUrl(EmbedUrl(embed)))
    THEN \* if (!isGifLike) return false
         [ret |-> FALSE, blocked |-> blockedMessageIds, error |-> "none"]
    ELSE MarkAndReturn(ShouldBlock(embed.type, EmbedUrl(embed)), messageId)

\* the callback of arr.filter in _filterAttachments, run on arr[i], arr[i+1],
\* ...: out is the array of the attachments kept so far
RECURSIVE FilterFrom(_, _, _, _)
FilterFrom(arr, i, blocked, out) ==
    IF i > Len(arr)
    THEN [ret |-> Array(out), blocked |-> blocked, error |-> "none"]
    ELSE LET att == arr[i]
             url == AttachmentUrl(att)
             type == att.content_type
         IN  IF att.message_id # ""
                /\ att.message_id \in temporarilyUnblockedMessageIds
             THEN FilterFrom(arr, i + 1, blocked, Append(out, att))
             ELSE IF type = NonString
             THEN \* catch (e): logged, return arr
                  [ret |-> Array(arr), blocked |-> blocked, error |-> "caught"]
             ELSE IF ~(ContentTypeToLowerCase(type) = "image/gif" \/ isGifUrl(url))
             THEN FilterFrom(arr, i + 1, blocked, Append(out, att))
             ELSE IF _shouldBlockUrl(url)
             THEN FilterFrom(arr, i + 1, _markBlocked(blocked, att.message_id), out)
             ELSE FilterFrom(arr, i + 1, blocked, Append(out, att))

\* _filterAttachments that returns the kept attachments last first
_filterAttachmentsReversed(arr) ==
    IF ~arr.isArray
    THEN [ret |-> arr, blocked |-> blockedMessageIds, error |-> "none"]
    ELSE LET r == FilterFrom(arr.items, 1, blockedMessageIds, <<>>)
             n == Len(r.ret.items)
         IN  [r EXCEPT !.ret = Array([i \in 1..n |-> r.ret.items[n + 1 - i]])]

\* _filterAttachments whose catch returns an empty array
_filterAttachmentsCatchEmpty(arr) ==
    IF ~arr.isArray
    THEN [ret |-> arr, blocked |-> blockedMessageIds, error |-> "none"]
    ELSE LET r == FilterFrom(arr.items, 1, blockedMessageIds, <<>>)
         IN  IF r.error = "caught" THEN [r EXCEPT !.ret = Array(<<>>)] ELSE r

\* _filterAttachments, index.tsx:189
_filterAttachments(arr) ==
    IF ~arr.isArray
    THEN [ret |-> arr, blocked |-> blockedMessageIds, error |-> "none"]
    ELSE FilterFrom(arr.items, 1, blockedMessageIds, <<>>)

\* found.add(url): a Set keeps the insertion order and no duplicates
SetAdd(found, url) ==
    IF \E i \in 1..Len(found) : found[i] = url THEN found ELSE Append(found, url)

\* the first loop of _collectGifUrlsFromMessage; a TypeError ends the loop
RECURSIVE CollectAttachments(_, _, _)
CollectAttachments(atts, i, found) ==
    IF i > Len(atts) THEN found
    ELSE LET att == atts[i]
             url == AttachmentUrl(att)
             type == att.content_type
         IN  IF type = NonString THEN found
             ELSE IF (ContentTypeToLowerCase(type) = "image/gif" \/ isGifUrl(url))
                     /\ url # <<>>
             THEN CollectAttachments(atts, i + 1, SetAdd(found, url))
             ELSE CollectAttachments(atts, i + 1, found)

\* the second loop of _collectGifUrlsFromMessage
RECURSIVE CollectEmbeds(_, _, _)
CollectEmbeds(embs, i, found) ==
    IF i > Len(embs) THEN found
    ELSE LET emb == embs[i]
             url == EmbedUrl(emb)
         IN  IF emb.type = "gifv"
             THEN CollectEmbeds(embs, i + 1,
                                IF emb.url # <<>> THEN SetAdd(found, emb.url)
                                ELSE found)
             ELSE IF isGifUrl(url) /\ url # <<>>
             THEN CollectEmbeds(embs, i + 1, SetAdd(found, url))
             ELSE CollectEmbeds(embs, i + 1, found)

\* _collectGifUrlsFromMessage, index.tsx:245
_collectGifUrlsFromMessage(message) ==
    CollectEmbeds(message.embeds, 1,
                  CollectAttachments(message.attachments, 1, <<>>))

\* urls.some(u => equalsAnyUrl(u, settings.store.patterns))
IsBlockedByList(urls) == \E i \in 1..Len(urls) : equalsAnyUrl(urls[i], patterns)

\* the three returns of renderMessagePopoverButton
PopoverButton(urls, isBlockedByList, isTemporarilyUnblocked) ==
    IF isBlockedByList /\ ~isTemporarilyUnblocked
    THEN [label |-> "Show GIF", urls |-> urls]
    ELSE IF isBlockedByList /\ isTemporarilyUnblocked
    THEN [label |-> "Hide GIF", urls |-> urls]
    ELSE [label |-> "Hide GIFs", urls |-> urls]

\* renderMessagePopoverButton after the call of _collectGifUrlsFromMessage
PopoverButtonFor(message, urls) ==
    IF Len(urls) = 0 THEN [label |-> "null", urls |-> urls]
    ELSE PopoverButton(urls, IsBlockedByList(urls),
                       message.id \in temporarilyUnblockedMessageIds)

\* renderMessagePopoverButton that takes no message for temporarily
\* unblocked
renderMessagePopoverButtonShowOnly(message) ==
    LET urls == _collectGifUrlsFromMessage(message)
    IN  IF Len(urls) = 0 THEN [label |-> "null", urls |-> urls]
        ELSE PopoverButton(urls, IsBlockedByList(urls), FALSE)

\* renderMessagePopoverButton, index.tsx:209: the label of the button and
\* the URLs its onClick holds, label "null" when there is no button
renderMessagePopoverButton(message) ==
    PopoverButtonFor(message, _collectGifUrlsFromMessage(message))

\* the loop of _addUrlsToBlocklistAndRefresh
RECURSIVE MergeFrom(_, _, _)
MergeFrom(merged, urls, i) ==
    IF i > Len(urls) THEN merged
    ELSE IF ~equalsAnyUrl(urls[i], merged)
    THEN MergeFrom(Append(merged, urls[i]), urls, i + 1)
    ELSE MergeFrom(merged, urls, i + 1)

\* _addUrlsToBlocklistAndRefresh, index.tsx:272: the new pattern list
_addUrlsToBlocklistAndRefresh(current, urls) == MergeFrom(current, urls, 1)

\* try { updateMessage(message.channel_id, message.id); } catch { }
\* with the error that reaches the caller left out
TryUpdateMessageUncaught(redrawFails) ==
    IF redrawFails THEN "escaped" ELSE "none"

\* try { updateMessage(message.channel_id, message.id); } catch { } of
\* _addUrlsToBlocklistAndRefresh and _toggleTemporaryUnblock: the error of
\* the call, redrawFails when updateMessage throws
TryUpdateMessage(redrawFails) ==
    IF redrawFails THEN "caught" ELSE "none"

\* renderMessageAccessory, index.tsx:146: the text of the accessory,
\* "null" when there is none
renderMessageAccessory(messageId, replacementMode) ==
    IF messageId \notin blockedMessageIds THEN "null"
    ELSE IF replacementMode # "note" THEN "null"
    ELSE "GIF Blocked"

\* _toggleTemporaryUnblock whose delete does nothing
_toggleTemporaryUnblockAddOnly(messageId, shouldUnblock) ==
    IF shouldUnblock THEN temporarilyUnblockedMessageIds \cup {messageId}
    ELSE temporarilyUnblockedMessageIds

\* _toggleTemporaryUnblock, index.tsx:282: the new set
_toggleTemporaryUnblock(messageId, shouldUnblock) ==
    IF shouldUnblock THEN temporarilyUnblockedMessageIds \cup {messageId}
    ELSE temporarilyUnblockedMessageIds \ {messageId}

----------------------------------------------------------------------------
(* Actions *)

\* renderEmbeds calls _shouldBlockEmbed on an embed of a message
ShouldBlockEmbed(embed, id, fault) ==
    \E r \in {_shouldBlockEmbed(embed, id, fault)} :
        /\ blockedMessageIds' = r.blocked
        /\ last' = [op |-> "_shouldBlockEmbed", id |-> id, embed |-> embed,
                    fault |-> fault, ret |-> r.ret, error |-> r.error]
        /\ UNCHANGED <<temporarilyUnblockedMessageIds, patterns, toggled>>

\* renderAttachments calls _filterAttachments on the attachments of the
\* message id
FilterAttachments(id, arr) ==
    \E r \in {_filterAttachments(arr)} :
        /\ blockedMessageIds' = r.blocked
        /\ last' = [op |-> "_filterAttachments", id |-> id, arr |-> arr,
                    ret |-> r.ret, error |-> r.error]
        /\ UNCHANGED <<temporarilyUnblockedMessageIds, patterns, toggled>>

\* the message popover is rendered
RenderMessagePopoverButton(message) ==
    \E b \in {renderMessagePopoverButton(message)} :
        /\ last' = [op |-> "renderMessagePopoverButton", message |-> message,
                    label |-> b.label, urls |-> b.urls]
        /\ UNCHANGED <<blockedMessageIds, temporarilyUnblockedMessageIds, patterns,
                       toggled>>

\* the accessory of a message is rendered; replacementMode is the value
\* of settings.store.replacementMode, which the user sets at any time
RenderMessageAccessory(id, replacementMode) ==
    /\ last' = [op |-> "renderMessageAccessory", id |-> id,
                replacementMode |-> replacementMode,
                ret |-> renderMessageAccessory(id, replacementMode)]
    /\ UNCHANGED <<blockedMessageIds, temporarilyUnblockedMessageIds, patterns,
                   toggled>>

\* The button that was rendered last is clicked: onClick holds the message
\* and the URLs of that rendering.  redrawFails: updateMessage throws.

\* onClick of "Show GIF" that also takes the message out of
\* blockedMessageIds
ClickShowGifUnmarks(redrawFails) ==
    /\ last.op = "renderMessagePopoverButton"
    /\ last.label = "Show GIF"
    /\ temporarilyUnblockedMessageIds' = _toggleTemporaryUnblock(last.message.id, TRUE)
    /\ blockedMessageIds' = blockedMessageIds \ {last.message.id}
    /\ toggled' = [toggled EXCEPT ![last.message.id] = "Show GIF"]
    /\ last' = [op |-> "Show GIF", id |-> last.message.id,
                redrawFails |-> redrawFails,
                error |-> TryUpdateMessage(redrawFails)]
    /\ UNCHANGED patterns

\* onClick of "Show GIF" (reveal)
ClickShowGif(redrawFails) ==
    /\ last.op = "renderMessagePopoverButton"
    /\ last.label = "Show GIF"
    /\ temporarilyUnblockedMessageIds' = _toggleTemporaryUnblock(last.message.id, TRUE)
    /\ toggled' = [toggled EXCEPT ![last.message.id] = "Show GIF"]
    /\ last' = [op |-> "Show GIF", id |-> last.message.id,
                redrawFails |-> redrawFails,
                error |-> TryUpdateMessage(redrawFails)]
    /\ UNCHANGED <<blockedMessageIds, patterns>>

\* onClick of "Hide GIF" (hide again)
ClickHideGif(redrawFails) ==
    /\ last.op = "renderMessagePopoverButton"
    /\ last.label = "Hide GIF"
    /\ temporarilyUnblockedMessageIds' = _toggleTemporaryUnblock(last.message.id, FALSE)
    /\ toggled' = [toggled EXCEPT ![last.message.id] = "Hide GIF"]
    /\ last' = [op |-> "Hide GIF", id |-> last.message.id,
                redrawFails |-> redrawFails,
                error |-> TryUpdateMessage(redrawFails)]
    /\ UNCHANGED <<blockedMessageIds, patterns>>

\* onClick of "Hide GIFs" (block these)
ClickHideGifs(redrawFails) ==
    /\ last.op = "renderMessagePopoverButton"
    /\ last.label = "Hide GIFs"
    /\ \E merged \in {_addUrlsToBlocklistAndRefresh(patterns, last.urls)} :
           /\ Len(merged) <= MaxPatterns
           /\ patterns' = merged
    /\ last' = [op |-> "Hide GIFs", id |-> last.message.id, urls |-> last.urls,
                before |-> patterns, redrawFails |-> redrawFails,
                error |-> TryUpdateMessage(redrawFails)]
    /\ UNCHANGED <<blockedMessageIds, temporarilyUnblockedMessageIds, toggled>>

\* the options of replacementMode, index.tsx:107
ReplacementModes == {"note", "hide"}

\* what the user types into a row of the settings panel
PatternInputs == {GifUrl, PlainUrl}

\* setAt, index.tsx:69
SetAt(i, val) ==
    /\ i \in 1..Len(patterns)
    /\ patterns' = [patterns EXCEPT ![i] = val]
    /\ last' = [op |-> "setAt"]
    /\ UNCHANGED <<blockedMessageIds, temporarilyUnblockedMessageIds, toggled>>

\* add, index.tsx:74
Add ==
    /\ Len(patterns) < MaxPatterns
    /\ patterns' = Append(patterns, <<>>)
    /\ last' = [op |-> "add"]
    /\ UNCHANGED <<blockedMessageIds, temporarilyUnblockedMessageIds, toggled>>

\* remove, index.tsx:77
Remove(i) ==
    /\ i \in 1..Len(patterns)
    /\ patterns' = SubSeq(patterns, 1, i - 1) \o SubSeq(patterns, i + 1, Len(patterns))
    /\ last' = [op |-> "remove"]
    /\ UNCHANGED <<blockedMessageIds, temporarilyUnblockedMessageIds, toggled>>

----------------------------------------------------------------------------
(* Spec: a session on the two messages of Channel *)

Init ==
    /\ blockedMessageIds = {}
    /\ temporarilyUnblockedMessageIds = {}
    /\ patterns = <<>>
    /\ last = [op |-> "init"]
    /\ toggled = [id \in MessageIds |-> "none"]

Next ==
    \/ \E id \in MessageIds, i \in 1..MaxEmbeds, fault \in BOOLEAN :
          /\ i <= Len(Channel[id].embeds)
          /\ ShouldBlockEmbed(Channel[id].embeds[i], id, fault)
    \/ \E id \in MessageIds : FilterAttachments(id, Array(Channel[id].attachments))
    \/ \E id \in MessageIds : RenderMessagePopoverButton(Channel[id])
    \/ \E id \in MessageIds, replacementMode \in ReplacementModes :
          RenderMessageAccessory(id, replacementMode)
    \/ \E redrawFails \in BOOLEAN : ClickShowGif(redrawFails)
    \/ \E redrawFails \in BOOLEAN : ClickHideGif(redrawFails)
    \/ \E redrawFails \in BOOLEAN : ClickHideGifs(redrawFails)
    \/ \E i \in 1..MaxPatterns, val \in PatternInputs : SetAt(i, val)
    \/ Add
    \/ \E i \in 1..MaxPatterns : Remove(i)

Spec == Init /\ [][Next]_vars

----------------------------------------------------------------------------
(* SpecPass: one call of a method, or one rendering of the popover and the *)
(* click on its button, on any message, from any state of the plugin       *)

\* the rows a pattern list can hold: what the user typed, the empty row of
\* add, and the URLs "Hide GIFs" appended
PatternRows == {<<>>, GifUrl, PlainUrl, PaddedGifName}

InitPass ==
    /\ blockedMessageIds \in SUBSET MessageIds
    /\ temporarilyUnblockedMessageIds \in SUBSET MessageIds
    /\ patterns \in SeqsUpTo(PatternRows, MaxPatterns)
    /\ last = [op |-> "init"]
    /\ toggled = [id \in MessageIds |->
                     IF id \in temporarilyUnblockedMessageIds THEN "Show GIF"
                     ELSE "none"]

NextPass ==
    \/ /\ last.op = "init"
       /\ \E embed \in Embeds, id \in MessageIds, fault \in BOOLEAN :
             ShouldBlockEmbed(embed, id, fault)
    \/ /\ last.op = "init"
       /\ \E id \in MessageIds :
             \E items \in SeqsUpTo(Attachments(id), MaxAttachments) :
                FilterAttachments(id, Array(items))
    \/ /\ last.op = "init"
       /\ \E id \in MessageIds : FilterAttachments(id, NotAnArray)
    \/ /\ last.op = "init"
       /\ \E m \in Messages : RenderMessagePopoverButton(m)
    \/ \E redrawFails \in BOOLEAN : ClickShowGif(redrawFails)
    \/ \E redrawFails \in BOOLEAN : ClickHideGif(redrawFails)
    \/ \E redrawFails \in BOOLEAN : ClickHideGifs(redrawFails)

SpecPass == InitPass /\ [][NextPass]_vars

----------------------------------------------------------------------------
(* SpecUrl: normalize and equalsAnyUrl on the strings built from parts:    *)
(* white space, scheme, host, path, query, fragment, white space           *)

MaxTrailingSlashes == 2

MaxParams == 2

Slashes(k) == [i \in 1..k |-> "/"]

PathStems == {<<>>, <<"/", "a">>, <<"/", "a", "G">>, <<"/", "E">>, <<"/", "%">>}

Paths == { stem \o Slashes(k) : stem \in PathStems, k \in 0..MaxTrailingSlashes }

Queries ==
    {<<>>} \cup { <<"?">> \o JoinWith(ps, "&") :
                    ps \in SeqsUpTo({<<"U">>, <<"M">>, <<"K">>, <<"T">>}, MaxParams) }

UrlParts ==
    { p \in [lead : {<<>>, <<" ">>, <<"N">>},
             scheme : {<<>>, <<"S">>},
             host : {<<>>, <<"a">>, <<"A">>},
             path : Paths,
             query : Queries,
             hash : {<<>>, <<"#", "G">>},
             trail : {<<>>, <<" ">>, <<"N">>}] :
        p.scheme # <<>> => p.host # <<>> }

Build(p) == p.lead \o p.scheme \o p.host \o p.path \o p.query \o p.hash \o p.trail

\* the URL of p with one more "/" at the end of its path
WithTrailingSlash(p) == Build([p EXCEPT !.path = @ \o <<"/">>])

\* the URL of p with one more tracking parameter at the end of its query
WithTrackingParam(p, t) ==
    Build([p EXCEPT !.query = IF Len(@) <= 1 THEN <<"?", t>>
                              ELSE @ \o <<"&", t>>])

InitUrl ==
    /\ blockedMessageIds = {}
    /\ temporarilyUnblockedMessageIds = {}
    /\ patterns = <<>>
    /\ toggled = [id \in MessageIds |-> "none"]
    /\ \E p \in UrlParts : last = [op |-> "input", parts |-> p]

\* normalize(u), and normalize of its result
Normalize ==
    /\ last.op = "input"
    /\ \E ret \in {normalize(Build(last.parts))} :
           last' = [op |-> "normalize", parts |-> last.parts,
                    u |-> Build(last.parts), ret |-> ret, again |-> normalize(ret)]
    /\ UNCHANGED <<blockedMessageIds, temporarilyUnblockedMessageIds, patterns,
                   toggled>>

\* equalsAnyUrl(u, [v]) and equalsAnyUrl(v, [u]), v one of: u, u with a
\* trailing slash more, u with a tracking parameter more
EqualsAnyUrl(variant) ==
    /\ last.op = "input"
    /\ LET u == Build(last.parts)
           v == IF variant = "same" THEN u
                ELSE IF variant = "slash" THEN WithTrailingSlash(last.parts)
                ELSE WithTrackingParam(last.parts, variant)
       IN  last' = [op |-> "equalsAnyUrl", parts |-> last.parts, variant |-> variant,
                    u |-> u, v |-> v,
                    ret |-> equalsAnyUrl(u, <<v>>), back |-> equalsAnyUrl(v, <<u>>)]
    /\ UNCHANGED <<blockedMessageIds, temporarilyUnblockedMessageIds, patterns,
                   toggled>>

NextUrl ==
    \/ Normalize
    \/ \E variant \in {"same", "slash"} \cup TrackingTokens : EqualsAnyUrl(variant)

SpecUrl == InitUrl /\ [][NextUrl]_vars

----------------------------------------------------------------------------
(* C1 *)

Contains(seq, x) == \E i \in 1..Len(seq) : seq[i] = x

\* C1 as stated: while a message id is in temporarilyUnblockedMessageIds,
\* _filterAttachments keeps every attachment of that message and
\* _shouldBlockEmbed returns false for every embed of it, whatever the
\* pattern list holds
C1_UnblockedMessageNeverSuppressed ==
    /\ (/\ last.op = "_filterAttachments"
        /\ last.arr.isArray
        /\ last.id \in temporarilyUnblockedMessageIds)
           => last.ret.items = last.arr.items
    /\ (/\ last.op = "_shouldBlockEmbed"
        /\ last.id \in temporarilyUnblockedMessageIds)
           => last.ret = FALSE

----------------------------------------------------------------------------
(* C2 *)

\* C2 as stated: the message is not temporarily unblocked, no exception is
\* raised, and an attachment has content_type "image/gif" and a URL that
\* equalsAnyUrl finds in the pattern list: the attachment is not in the
\* result and the message id is in blockedMessageIds afterwards
C2_MatchingGifAttachmentRemovedAndMarked ==
    (/\ last.op = "_filterAttachments"
     /\ last.arr.isArray
     /\ last.error = "none"
     /\ last.id \notin temporarilyUnblockedMessageIds)
        => \A i \in 1..Len(last.arr.items) :
              LET att == last.arr.items[i]
              IN  (/\ att.content_type = "image/gif"
                   /\ equalsAnyUrl(AttachmentUrl(att), patterns))
                      => /\ ~Contains(last.ret.items, att)
                         /\ last.id \in blockedMessageIds

----------------------------------------------------------------------------
(* C3 *)

\* the first half of C3: a gifv embed whose url is in the pattern list is
\* suppressed and its message marked blocked; after "Show GIF" on the
\* message the call returns false, after "Hide GIF" it returns true again
C3_GifvFollowsToggle ==
    (/\ last.op = "_shouldBlockEmbed"
     /\ ~last.fault
     /\ last.embed.type = "gifv"
     /\ last.embed.url # <<>>
     /\ equalsAnyUrl(last.embed.url, patterns))
        => /\ toggled[last.id] = "Show GIF" => last.ret = FALSE
           /\ toggled[last.id] \in {"none", "Hide GIF"}
                 => (last.ret = TRUE /\ last.id \in blockedMessageIds)

----------------------------------------------------------------------------
(* C4 *)

\* C4 as stated: "Hide GIFs" has merged the URLs of the button into the
\* pattern list; merging the same URLs once more leaves the list as it is
C4_MergeIdempotent ==
    last.op = "Hide GIFs"
        => _addUrlsToBlocklistAndRefresh(patterns, last.urls) = patterns

----------------------------------------------------------------------------
(* C5 *)

\* normalized equality of two strings
NormalizedEqual(a, b) == normalize(a) = normalize(b)

NoNormalizedDuplicates(list) ==
    \A i, j \in 1..Len(list) :
        (i # j) => ~NormalizedEqual(list[i], list[j])

\* existing, followed by the members of urls that are normalized-equal to
\* no entry before them
RECURSIVE AppendNew(_, _)
AppendNew(list, urls) ==
    IF urls = <<>> THEN list
    ELSE IF \E i \in 1..Len(list) : NormalizedEqual(Head(urls), list[i])
    THEN AppendNew(list, Tail(urls))
    ELSE AppendNew(Append(list, Head(urls)), Tail(urls))

\* C5 as stated: the list after "Hide GIFs" is the list before it followed
\* by exactly the new URLs that are normalized-equal to no earlier entry,
\* and a list without normalized-equal duplicates stays without them
C5_MergeAppendsExactlyTheNew ==
    last.op = "Hide GIFs"
        => /\ patterns = AppendNew(last.before, last.urls)
           /\ NoNormalizedDuplicates(last.before)
                 => NoNormalizedDuplicates(patterns)

----------------------------------------------------------------------------
(* C6 *)

\* C6: no button when _collectGifUrlsFromMessage finds nothing; else one
\* button, "Show GIF" iff a collected URL is in the pattern list and the
\* message is not temporarily unblocked, "Hide GIF" iff one is and the
\* message is, "Hide GIFs" iff none is
C6_AffordanceByMatchAndOverride ==
    last.op = "renderMessagePopoverButton"
        => LET urls == _collectGifUrlsFromMessage(last.message)
               matched == \E i \in 1..Len(urls) : equalsAnyUrl(urls[i], patterns)
               unblocked == last.message.id \in temporarilyUnblockedMessageIds
           IN  /\ urls = <<>> => last.label = "null"
               /\ urls # <<>>
                     => /\ last.label \in {"Show GIF", "Hide GIF", "Hide GIFs"}
                        /\ last.label = "Show GIF" <=> (matched /\ ~unblocked)
                        /\ last.label = "Hide GIF" <=> (matched /\ unblocked)
                        /\ last.label = "Hide GIFs" <=> ~matched

\* a temporarily unblocked message with a blocked URL got "Hide GIF"
C6_Witness ==
    /\ last.op = "renderMessagePopoverButton"
    /\ last.label = "Hide GIF"
    /\ last.message.id \in temporarilyUnblockedMessageIds
    /\ Len(last.urls) = 2

----------------------------------------------------------------------------
(* C7 *)

\* C7: no step takes a message id out of blockedMessageIds
C7_BlockedSetMonotonic ==
    [][blockedMessageIds \subseteq blockedMessageIds']_vars

\* both messages are marked blocked, and the patterns that blocked them
\* have been removed from the list since
C7_Witness ==
    /\ blockedMessageIds = MessageIds
    /\ patterns = <<>>
    /\ last.op = "remove"

----------------------------------------------------------------------------
(* C8 *)

\* the filter callback raises a TypeError on arr: an attachment that is
\* not kept for its message being temporarily unblocked has a content_type
\* that is no string
RaisesInFilter(arr) ==
    \E i \in 1..Len(arr.items) :
        /\ arr.items[i].content_type = NonString
        /\ ~(/\ arr.items[i].message_id # ""
             /\ arr.items[i].message_id \in temporarilyUnblockedMessageIds)

\* C8: an exception raised while an embed is classified makes
\* _shouldBlockEmbed return false, one raised while attachments are
\* filtered makes _filterAttachments return its argument, and none
\* reaches the caller
C8_FailOpen ==
    /\ (last.op = "_shouldBlockEmbed" /\ last.fault)
           => (last.ret = FALSE /\ last.error # "escaped")
    /\ (last.op = "_filterAttachments" /\ last.arr.isArray /\ RaisesInFilter(last.arr))
           => (last.ret = last.arr /\ last.error # "escaped")

\* the callback removed a blocked GIF and then raised on the next
\* attachment: both attachments are returned
C8_Witness ==
    /\ last.op = "_filterAttachments"
    /\ last.error = "caught"
    /\ Len(last.arr.items) = 2
    /\ last.arr.items[1] = Attachment(<<>>, GifUrlVariant, "image/png", last.id)
    /\ last.id \in blockedMessageIds
    /\ last.ret = last.arr

----------------------------------------------------------------------------
(* C9 *)

\* s ends in two slashes
EndsInTwoSlashes(s) == Len(s) >= 2 /\ s[Len(s)] = "/" /\ s[Len(s) - 1] = "/"

HasPercent(s) == \E i \in 1..Len(s) : s[i] \in {"%", "E", "n"}

\* C9 as stated: normalize is idempotent, normalize(normalize(u)) =
\* normalize(u) for every string u
C9_NormalizeIdempotent ==
    last.op = "normalize" => last.again = last.ret

\* the inputs normalize is idempotent on: a URL whose path does not end in
\* two slashes (the path "//" apart, which becomes "/"), and a string that
\* is no URL, holds no percent sign and does not end in two slashes
C9_Covered(u) ==
    LET parsed == ParseURL(u)
    IN  IF parsed.ok
        THEN ~(Len(parsed.pathname) >= 3 /\ EndsInTwoSlashes(parsed.pathname))
        ELSE ~HasPercent(u) /\ ~EndsInTwoSlashes(u)

\* C9 amended: normalize(normalize(u)) = normalize(u) for every u that
\* parses as a URL whose path does not end in two slashes, and for every u
\* that does not parse, holds no percent sign and does not end in two
\* slashes
C9_NormalizeIdempotentOffDoubleSlash ==
    (last.op = "normalize" /\ C9_Covered(last.u)) => last.again = last.ret

\* normalize has changed a covered input: host case, a tracking parameter,
\* the fragment or a trailing slash are gone
C9_Witness ==
    /\ last.op = "normalize"
    /\ C9_Covered(last.u)
    /\ last.parts.host = <<"A">>
    /\ last.parts.query = <<"?", "K", "&", "U">>
    /\ last.parts.path = <<"/", "a", "/">>
    /\ last.ret = <<"S", "a", "/", "a", "?", "K">>

----------------------------------------------------------------------------
(* C10 *)

\* a well-formed URL: scheme and host, no white space around it
WellFormed(p) == p.scheme # <<>> /\ p.lead = <<>> /\ p.trail = <<>>

\* C10 as stated: for a well-formed URL u, equalsAnyUrl(u, [u]) is true,
\* and u and u with one trailing slash more on its path, or with a tracking
\* parameter more, match each other
C10_ReflexiveSlashTrackingInsensitive ==
    (last.op = "equalsAnyUrl" /\ WellFormed(last.parts))
        => (last.ret /\ last.back)

\* the path of u does not end in a slash already, the root path apart
C10_NoTrailingSlashYet(u) ==
    LET pathname == ParseURL(u).pathname
    IN  pathname = <<"/">> \/ Last(pathname) # "/"

\* C10 amended: for a well-formed URL u, equalsAnyUrl(u, [u]) is true, u
\* and u with a tracking parameter more match each other, and u and u with
\* a trailing slash more match each other when the path of u is "/" or
\* does not end in a slash
C10_ReflexiveSlashTrackingAmended ==
    (/\ last.op = "equalsAnyUrl"
     /\ WellFormed(last.parts)
     /\ last.variant = "slash" => C10_NoTrailingSlashYet(last.u))
        => (last.ret /\ last.back)

\* https://A/a.gif?k=1 and https://A/a.gif/?k=1 have been matched
C10_Witness ==
    /\ last.op = "equalsAnyUrl"
    /\ last.variant = "slash"
    /\ last.u = <<"S", "A", "/", "a", "G", "?", "K">>
    /\ last.v = <<"S", "A", "/", "a", "G", "/", "?", "K">>
    /\ last.ret
    /\ last.back

----------------------------------------------------------------------------
(* C11 *)

\* C11 as stated: a message id enters blockedMessageIds only in a filter
\* pass of its message that suppressed an item, a _filterAttachments call
\* whose result lacks an attachment of its argument or a _shouldBlockEmbed
\* call that returned true; so also not in a pass that ended in a fault
\* and returned its argument
C11_BlockedOnlyWhenSuppressed ==
    [][\A id \in blockedMessageIds' \ blockedMessageIds :
          \/ /\ last'.op = "_filterAttachments"
             /\ last'.id = id
             /\ Len(last'.ret.items) < Len(last'.arr.items)
          \/ /\ last'.op = "_shouldBlockEmbed"
             /\ last'.id = id
             /\ last'.ret = TRUE]_vars

----------------------------------------------------------------------------
(* C12 *)

\* C12 as stated: every message id in temporarilyUnblockedMessageIds is in
\* blockedMessageIds, "Show GIF" is only clicked on a message that had an
\* item suppressed
C12_UnblockedWithinBlocked ==
    temporarilyUnblockedMessageIds \subseteq blockedMessageIds

----------------------------------------------------------------------------
(* C13 *)

\* C13: a _shouldBlockEmbed call, a _filterAttachments call and a rendering
\* of the popover leave temporarilyUnblockedMessageIds and the pattern list
\* as they are; "Show GIF" and "Hide GIF" leave blockedMessageIds and the
\* pattern list as they are and change the membership of no other message
\* in temporarilyUnblockedMessageIds; "Hide GIFs" leaves both sets as they
\* are
C13_FrameConditions ==
    [][/\ last'.op \in {"_shouldBlockEmbed", "_filterAttachments",
                        "renderMessagePopoverButton"}
             => /\ temporarilyUnblockedMessageIds' = temporarilyUnblockedMessageIds
                /\ patterns' = patterns
       /\ last'.op \in {"Show GIF", "Hide GIF"}
             => /\ blockedMessageIds' = blockedMessageIds
                /\ patterns' = patterns
                /\ \A id \in MessageIds \ {last'.id} :
                      id \in temporarilyUnblockedMessageIds'
                         <=> id \in temporarilyUnblockedMessageIds
       /\ last'.op = "Hide GIFs"
             => /\ blockedMessageIds' = blockedMessageIds
                /\ temporarilyUnblockedMessageIds' = temporarilyUnblockedMessageIds
      ]_vars

\* "Hide GIF" was clicked on m1 while m2 was temporarily unblocked and both
\* messages were marked blocked: m2 is still temporarily unblocked and both
\* are still marked
C13_Witness ==
    /\ last.op = "Hide GIF"
    /\ last.id = "m1"
    /\ temporarilyUnblockedMessageIds = {"m2"}
    /\ blockedMessageIds = MessageIds
    /\ patterns # <<>>

----------------------------------------------------------------------------
(* C14 *)

\* C14: a message id is in temporarilyUnblockedMessageIds iff the toggle
\* button clicked last on the message was "Show GIF" (in no click's absence
\* it is absent), whatever calls and edits came after the click;
\* _toggleTemporaryUnblock(id, true) on a member and
\* _toggleTemporaryUnblock(id, false) on a non-member give the set as it is
C14_UnblockedIffLastToggleWasReveal ==
    /\ \A id \in MessageIds :
          id \in temporarilyUnblockedMessageIds <=> toggled[id] = "Show GIF"
    /\ \A id \in temporarilyUnblockedMessageIds :
          _toggleTemporaryUnblock(id, TRUE) = temporarilyUnblockedMessageIds
    /\ \A id \in MessageIds \ temporarilyUnblockedMessageIds :
          _toggleTemporaryUnblock(id, FALSE) = temporarilyUnblockedMessageIds

\* m1 was revealed and hidden again, m2 was revealed, and a filter pass has
\* run since: m2 alone is temporarily unblocked
C14_Witness ==
    /\ toggled["m1"] = "Hide GIF"
    /\ toggled["m2"] = "Show GIF"
    /\ temporarilyUnblockedMessageIds = {"m2"}
    /\ last.op = "_filterAttachments"

----------------------------------------------------------------------------
(* C15 *)

\* sub is seq with some of its elements left out
RECURSIVE IsSubsequence(_, _)
IsSubsequence(sub, seq) ==
    IF sub = <<>> THEN TRUE
    ELSE IF seq = <<>> THEN FALSE
    ELSE IF Head(sub) = Head(seq) THEN IsSubsequence(Tail(sub), Tail(seq))
    ELSE IsSubsequence(sub, Tail(seq))

\* neither the content type nor the URL of att says GIF
NotGifLike(att) ==
    /\ ContentTypeToLowerCase(att.content_type) # "image/gif"
    /\ ~isGifUrl(AttachmentUrl(att))

\* C15: the array _filterAttachments returns for an array holds attachments
\* of the argument in the order of the argument, and among them every
\* attachment that is not GIF-like, whatever the pattern list holds
C15_SubsequenceKeepingNonGifs ==
    (last.op = "_filterAttachments" /\ last.arr.isArray)
        => /\ last.ret.isArray
           /\ IsSubsequence(last.ret.items, last.arr.items)
           /\ \A i \in 1..Len(last.arr.items) :
                 NotGifLike(last.arr.items[i])
                    => Contains(last.ret.items, last.arr.items[i])

\* a GIF was removed and the attachment after it, which is not GIF-like and
\* whose URL is in the pattern list, was kept
C15_Witness ==
    /\ last.op = "_filterAttachments"
    /\ Len(last.arr.items) = 2
    /\ last.arr.items[2] = Attachment(PlainUrl, <<>>, "image/png", last.id)
    /\ Contains(patterns, PlainUrl)
    /\ last.ret.items = <<last.arr.items[2]>>

----------------------------------------------------------------------------
(* C16 *)

\* C16: when updateMessage throws in the onClick of "Show GIF", "Hide GIF"
\* or "Hide GIFs", no error reaches the caller, and the message id has
\* been added to or deleted from temporarilyUnblockedMessageIds, or the
\* pattern list is the merged list
C16_RedrawFailureSwallowed ==
    (last.op \in {"Show GIF", "Hide GIF", "Hide GIFs"} /\ last.redrawFails)
        => /\ last.error # "escaped"
           /\ last.op = "Show GIF" => last.id \in temporarilyUnblockedMessageIds
           /\ last.op = "Hide GIF" => last.id \notin temporarilyUnblockedMessageIds
           /\ last.op = "Hide GIFs"
                 => patterns = _addUrlsToBlocklistAndRefresh(last.before, last.urls)

\* updateMessage threw in "Hide GIFs": the error was caught and the pattern
\* list has grown
C16_Witness ==
    /\ last.op = "Hide GIFs"
    /\ last.redrawFails
    /\ last.error = "caught"
    /\ Len(patterns) > Len(last.before)

----------------------------------------------------------------------------
(* C17 *)

\* a filter pass over the message id of the channel, in the state as it
\* is, suppresses an item: _filterAttachments leaves an attachment out or
\* _shouldBlockEmbed returns true for an embed
CurrentlySuppressed(id) ==
    \/ Len(_filterAttachments(Array(Channel[id].attachments)).ret.items)
          < Len(Channel[id].attachments)
    \/ \E i \in 1..Len(Channel[id].embeds) :
          _shouldBlockEmbed(Channel[id].embeds[i], id, FALSE).ret

\* C17 as stated, the part the code is held to in every interleaving: with
\* replacementMode "hide" renderMessageAccessory shows nothing; with "note"
\* it shows "GIF Blocked" only for a message that has an item suppressed
\* now, so not for a temporarily unblocked message all of whose items are
\* shown
C17_MarkerOnlyWhileSuppressed ==
    last.op = "renderMessageAccessory"
        => /\ last.replacementMode = "hide" => last.ret = "null"
           /\ (last.replacementMode = "note" /\ last.ret = "GIF Blocked")
                 => CurrentlySuppressed(last.id)

----------------------------------------------------------------------------
(* C18 *)

\* C18 as stated: when _shouldBlockEmbed has returned true for an embed of
\* a message, or _filterAttachments has left out an attachment of it, the
\* popover of that message, under the same pattern list, offers "Show GIF"
C18_SuppressedCanBeRevealed ==
    /\ (last.op = "_shouldBlockEmbed" /\ last.ret = TRUE)
          => \A m \in Messages :
                (m.id = last.id /\ Contains(m.embeds, last.embed))
                   => renderMessagePopoverButton(m).label = "Show GIF"
    /\ (/\ last.op = "_filterAttachments"
        /\ last.arr.isArray
        /\ Len(last.ret.items) < Len(last.arr.items))
          => \A m \in Messages :
                (m.id = last.id /\ m.attachments = last.arr.items)
                   => renderMessagePopoverButton(m).label = "Show GIF"

----------------------------------------------------------------------------
(* C19 *)

\* C19 as stated: "Hide GIFs" was clicked on a message that is not
\* temporarily unblocked, and the next call is a filter pass over that
\* message: _filterAttachments leaves out every attachment whose URL was
\* among the URLs of the button, and _shouldBlockEmbed returns true for an
\* embed whose URL was among them and the message id is in
\* blockedMessageIds afterwards
C19_BlockTheseTakesEffect ==
    [][(last.op = "Hide GIFs" /\ last.id \notin temporarilyUnblockedMessageIds)
          => /\ (/\ last'.op = "_filterAttachments"
                 /\ last'.id = last.id
                 /\ last'.arr.isArray)
                   => \A i \in 1..Len(last'.arr.items) :
                         Contains(last.urls, AttachmentUrl(last'.arr.items[i]))
                            => ~Contains(last'.ret.items, last'.arr.items[i])
             /\ (/\ last'.op = "_shouldBlockEmbed"
                 /\ last'.id = last.id
                 /\ ~last'.fault
                 /\ Contains(last.urls, EmbedUrl(last'.embed)))
                   => /\ last'.ret = TRUE
                      /\ last.id \in blockedMessageIds'
      ]_vars
====
